---- MODULE Spec2Model ----
(***************************************************************************)
(* Run-length-encoded container of roaring-rs (bitmap/store/rle_store):    *)
(* Interval, RunStore (lookup, insert, validated construction), RunWriter  *)
(* and the set-algebra sweeps or / xor / and.                              *)
(*                                                                         *)
(* Keys are unsigned machine integers 0..MaxKey; MaxKey plays the role of  *)
(* u16::MAX.  Arithmetic is modelled with its width: every + and - on a    *)
(* key yields the wrapped value (what a release build computes) together   *)
(* with a flag saying that it overflowed (where a debug build panics).     *)
(***************************************************************************)
EXTENDS Integers, Sequences, FiniteSets, TLC

VARIABLES build,                      \* "debug" (overflow panics) or "release" (overflow wraps)
          vec, pre, key, ret, iovf,   \* RunStore under insertion, and the last insert call
          lhs, rhs, tie, opname, out, rev,   \* operands and result of a binary operation
          acc,                        \* what the RunWriter holds before the operation
          seq, res                    \* argument and result of RunStore::try_from

vars == <<build, vec, pre, key, ret, iovf, lhs, rhs, tie, opname, out, rev, acc, seq, res>>

MaxKey == 5
MaxSeqLen == 3

Modulus == MaxKey + 1
U16 == 0..MaxKey
Builds == {"debug", "release"}
NoKey == -1

----------------------------------------------------------------------------
(* Sequence helpers: Vec::remove, Vec::insert *)

RemoveAt(s, i) == SubSeq(s, 1, i - 1) \o SubSeq(s, i + 1, Len(s))
InsertAt(s, i, x) == SubSeq(s, 1, i - 1) \o <<x>> \o SubSeq(s, i, Len(s))

\* Vec::get(i) with a 1-based position: an Option, <<>> or <<element>>
Get(s, i) == IF i \in 1..Len(s) THEN <<s[i]>> ELSE <<>>

----------------------------------------------------------------------------
(* interval.rs *)

Interval(value, length) == [value |-> value, length |-> length]

\* value + length, wrapped; EndOvf tells that the addition overflowed
get_end(i) == (i.value + i.length) % Modulus
EndOvf(i) == i.value + i.length > MaxKey

FromKey(value) == Interval(value, 0)

\* From<(u16, u16)>: length = value.1 - value.0, wrapped; overflows iff b < a
FromPair(a, b) == Interval(a, (b - a + Modulus) % Modulus)

compare_to_index_strict_end(i, k) ==
    IF k < i.value THEN "Greater"
    ELSE IF k < get_end(i) THEN "Equal"
    ELSE "Less"

compare_to_index(i, k) ==
    IF k < i.value THEN "Greater"
    ELSE IF k <= get_end(i) THEN "Equal"
    ELSE "Less"

\* other is an Option: <<>> or <<interval>>; so is the result `some`
try_fuse(self, other) ==
    IF other = <<>> THEN [some |-> <<>>, ovf |-> FALSE]
    ELSE LET o == other[1]
             this_start == self.value
             this_end == get_end(self)
             other_start == o.value
             other_end == get_end(o)
             povf == EndOvf(self) \/ EndOvf(o)
         IN  IF other_start >= this_end /\ other_start - this_end = 2
             THEN [some |-> <<FromPair(this_start, other_end)>>,
                   ovf |-> povf \/ other_end < this_start]
             ELSE IF this_start >= other_end /\ this_start - other_end = 2
             THEN [some |-> <<FromPair(other_start, this_end)>>,
                   ovf |-> povf \/ this_end < other_start]
             ELSE [some |-> <<>>, ovf |-> povf]

----------------------------------------------------------------------------
(* mod.rs: RunStore *)

RunStoreNew == <<>>

\* slice::binary_search_by_key on a slice sorted by start: Ok(position of the
\* match) or Err(number of elements below the key); the code subtracts 1.
interleaved_binary_search(v, ikey) ==
    IF \E i \in 1..Len(v) : v[i].value = ikey
    THEN [ok |-> TRUE, index |-> (CHOOSE i \in 1..Len(v) : v[i].value = ikey) - 1]
    ELSE [ok |-> FALSE, index |-> Cardinality({i \in 1..Len(v) : v[i].value < ikey}) - 1]

find_run(v, ikey) ==
    IF \E i \in 1..Len(v) : compare_to_index(v[i], ikey) = "Equal"
    THEN [ok |-> TRUE,
          index |-> (CHOOSE i \in 1..Len(v) : compare_to_index(v[i], ikey) = "Equal") - 1]
    ELSE [ok |-> FALSE,
          index |-> Cardinality({i \in 1..Len(v) : compare_to_index(v[i], ikey) = "Less"}) - 1]

\* lines 73-83 of insert: the part reached when no branch above returned
insert_tail(v, pos, index, ovf) ==
    LET fused == IF index = -1
                 THEN try_fuse(FromKey(pos), Get(v, 1))
                 ELSE [some |-> <<>>, ovf |-> FALSE]
    IN  IF index = -1 /\ fused.some # <<>>
        THEN [vec |-> [v EXCEPT ![1] = fused.some[1]], ret |-> TRUE, ovf |-> ovf \/ fused.ovf]
        ELSE [vec |-> InsertAt(v, index + 2, FromKey(pos)), ret |-> TRUE,
              ovf |-> ovf \/ fused.ovf]

insert(v, pos) ==
    LET s == interleaved_binary_search(v, pos)
        index == s.index
    IN  IF s.ok THEN [vec |-> v, ret |-> FALSE, ovf |-> FALSE]
        ELSE IF index >= 0
        THEN LET interval == v[index + 1]
                 hasOffset == pos >= interval.value        \* checked_sub is Some
                 offset == pos - interval.value
                 len == interval.length
                 next == Get(v, index + 2)   \* vec.get(index + 1)
             IN  IF (~hasOffset) \/ offset <= len
                 THEN [vec |-> v, ret |-> FALSE, ovf |-> FALSE]
                 ELSE IF offset = (len + 1) % Modulus
                 THEN LET fused == try_fuse(interval, next)
                          o1 == len = MaxKey \/ fused.ovf
                      IN  IF fused.some # <<>>
                          THEN [vec |-> [RemoveAt(v, index + 2) EXCEPT ![index + 1] = fused.some[1]],
                                ret |-> TRUE, ovf |-> o1]
                          ELSE [vec |-> [v EXCEPT ![index + 1].length = (len + 1) % Modulus],
                                ret |-> TRUE, ovf |-> o1 \/ len = MaxKey]
                 ELSE IF next # <<>>
                 THEN IF next[1].value = (pos + 1) % Modulus
                      THEN [vec |-> [v EXCEPT ![index + 2] =
                                        Interval(pos, (next[1].length + 1) % Modulus)],
                            ret |-> TRUE,
                            ovf |-> len = MaxKey \/ pos = MaxKey \/ next[1].length = MaxKey]
                      ELSE insert_tail(v, pos, index, len = MaxKey \/ pos = MaxKey)
                 ELSE insert_tail(v, pos, index, len = MaxKey)
        ELSE insert_tail(v, pos, index, FALSE)

\* TryFrom<Vec<Interval>>: Ok(store) or Err(index of the offending interval)
try_from(value) ==
    IF value = <<>> THEN [ok |-> TRUE, index |-> 0, vec |-> value]
    ELSE LET prev == value[1]
             bad == {i \in 2..Len(value) :
                        compare_to_index(value[i], prev.value) # "Greater"}
         IN  IF bad = {}
             THEN [ok |-> TRUE, index |-> 0, vec |-> value]
             ELSE [ok |-> FALSE,
                   index |-> (CHOOSE i \in bad : \A j \in bad : i <= j) - 1,
                   vec |-> <<>>]

----------------------------------------------------------------------------
(* visitor.rs: RunWriter.  A writer is the store it accumulates, with two   *)
(* sticky flags: ovf (some bound arithmetic overflowed while feeding it)    *)
(* and asrt (the ordering assertion of visit_interval failed), and the      *)
(* number of intervals it has received through visit_interval.              *)

RunWriterNew == [vec |-> RunStoreNew, ovf |-> FALSE, asrt |-> FALSE, visits |-> 0]

Max(a, b) == IF a >= b THEN a ELSE b

visit_interval(w, ival) ==
    IF w.asrt THEN w
    ELSE IF w.vec = <<>> THEN [w EXCEPT !.vec = <<ival>>, !.visits = w.visits + 1]
    ELSE LET n == Len(w.vec)
             last_ival == w.vec[n]
             last_end == get_end(last_ival)
             max_end == Max(last_end, get_end(ival))
             o1 == EndOvf(last_ival) \/ EndOvf(ival) \/ last_end = MaxKey
         IN  IF ~(ival.value >= last_ival.value)
             THEN [w EXCEPT !.asrt = TRUE, !.visits = w.visits + 1]
             ELSE IF ival.value <= (last_end + 1) % Modulus
             THEN [vec |-> [w.vec EXCEPT ![n].length =
                               (max_end - last_ival.value + Modulus) % Modulus],
                   ovf |-> w.ovf \/ o1 \/ max_end < last_ival.value,
                   asrt |-> w.asrt, visits |-> w.visits + 1]
             ELSE [vec |-> Append(w.vec, ival), ovf |-> w.ovf \/ o1, asrt |-> w.asrt,
                   visits |-> w.visits + 1]

visit_run_store(w, store) == [w EXCEPT !.vec = store]

into_inner(w) == w.vec

----------------------------------------------------------------------------
(* Collaborators of ops.rs that live outside rle_store *)

\* RunStore::is_full: exactly the single interval covering the key space
is_full(v) == v = <<Interval(0, MaxKey)>>

\* util::minmax
minmax(a, b) == IF a <= b THEN <<a, b>> ELSE <<b, a>>

\* bitmap::iter::BivariateOrderedIterator: the merge of two ascending
\* interval sequences by ascending start.  Which operand goes first when two
\* starts are equal is a property of the iterator: tieside says which.
RECURSIVE BivariateOrderedIterator(_, _, _)
BivariateOrderedIterator(l, r, tieside) ==
    IF l = <<>> THEN r
    ELSE IF r = <<>> THEN l
    ELSE IF l[1].value < r[1].value \/ (l[1].value = r[1].value /\ tieside = "left")
    THEN <<l[1]>> \o BivariateOrderedIterator(Tail(l), r, tieside)
    ELSE <<r[1]>> \o BivariateOrderedIterator(l, Tail(r), tieside)

----------------------------------------------------------------------------
(* ops.rs.  A sweep state is the carry prev (an Option) and the visitor w. *)

RECURSIVE or_sweep(_, _)
or_sweep(w, s) ==
    IF s = <<>> THEN w ELSE or_sweep(visit_interval(w, s[1]), Tail(s))

\* or without the is_full shortcuts: every interval is visited
or_no_fast_path(l, r, w, tieside) ==
    or_sweep(w, BivariateOrderedIterator(l, r, tieside))

or(l, r, w, tieside) ==
    IF is_full(l) THEN visit_run_store(w, l)
    ELSE IF is_full(r) THEN visit_run_store(w, r)
    ELSE or_sweep(w, BivariateOrderedIterator(l, r, tieside))

Flag(w, o) == [w EXCEPT !.ovf = w.ovf \/ o]

\* xor_append without the branch that cancels two identical intervals
xor_append_no_cancel(st, curr_interval) ==
    LET w == st.w IN
    IF st.prev = <<>> THEN [prev |-> <<curr_interval>>, w |-> w]
    ELSE LET unwrapped_prev == st.prev[1]
             prev_start == unwrapped_prev.value
             prev_end == get_end(unwrapped_prev)
             curr_start == curr_interval.value
             curr_end == get_end(curr_interval)
             o1 == EndOvf(unwrapped_prev) \/ prev_end = MaxKey
             o2 == o1 \/ EndOvf(curr_interval)
         IN  IF (prev_end + 1) % Modulus < curr_start
             THEN [prev |-> <<curr_interval>>,
                   w |-> visit_interval(Flag(w, o1), unwrapped_prev)]
             ELSE IF prev_start = curr_start
             THEN LET m == minmax(prev_end, curr_end)
                      lo == (m[1] + 1) % Modulus
                  IN  [prev |-> <<FromPair(lo, m[2])>>,
                       w |-> Flag(w, o2 \/ m[1] = MaxKey \/ m[2] < lo)]
             ELSE IF prev_end = curr_end
             THEN LET m == minmax(prev_start, curr_start)
                      hi == (m[2] - 1 + Modulus) % Modulus
                  IN  [prev |-> <<FromPair(m[1], hi)>>,
                       w |-> Flag(w, o2 \/ m[2] = 0 \/ hi < m[1])]
             ELSE LET m == minmax(prev_end, curr_end)
                      lend == (curr_start - 1 + Modulus) % Modulus
                      rstart == (m[1] + 1) % Modulus
                      left == FromPair(prev_start, lend)
                      right == FromPair(rstart, m[2])
                      o3 == o2 \/ curr_start = 0 \/ lend < prev_start
                               \/ m[1] = MaxKey \/ m[2] < rstart
                  IN  [prev |-> <<right>>, w |-> visit_interval(Flag(w, o3), left)]

xor_append(st, curr_interval) ==
    LET w == st.w IN
    IF st.prev = <<>> THEN [prev |-> <<curr_interval>>, w |-> w]
    ELSE LET unwrapped_prev == st.prev[1]
             prev_start == unwrapped_prev.value
             prev_end == get_end(unwrapped_prev)
             curr_start == curr_interval.value
             curr_end == get_end(curr_interval)
             o1 == EndOvf(unwrapped_prev) \/ prev_end = MaxKey
             o2 == o1 \/ EndOvf(curr_interval)
         IN  IF unwrapped_prev = curr_interval THEN [prev |-> <<>>, w |-> w]
             ELSE IF (prev_end + 1) % Modulus < curr_start
             THEN [prev |-> <<curr_interval>>,
                   w |-> visit_interval(Flag(w, o1), unwrapped_prev)]
             ELSE IF prev_start = curr_start
             THEN LET m == minmax(prev_end, curr_end)
                      lo == (m[1] + 1) % Modulus
                  IN  [prev |-> <<FromPair(lo, m[2])>>,
                       w |-> Flag(w, o2 \/ m[1] = MaxKey \/ m[2] < lo)]
             ELSE IF prev_end = curr_end
             THEN LET m == minmax(prev_start, curr_start)
                      hi == (m[2] - 1 + Modulus) % Modulus
                  IN  [prev |-> <<FromPair(m[1], hi)>>,
                       w |-> Flag(w, o2 \/ m[2] = 0 \/ hi < m[1])]
             ELSE LET m == minmax(prev_end, curr_end)
                      lend == (curr_start - 1 + Modulus) % Modulus
                      rstart == (m[1] + 1) % Modulus
                      left == FromPair(prev_start, lend)
                      right == FromPair(rstart, m[2])
                      o3 == o2 \/ curr_start = 0 \/ lend < prev_start
                               \/ m[1] = MaxKey \/ m[2] < rstart
                  IN  [prev |-> <<right>>, w |-> visit_interval(Flag(w, o3), left)]

RECURSIVE xor_sweep(_, _)
xor_sweep(st, s) ==
    IF s = <<>> THEN st ELSE xor_sweep(xor_append(st, s[1]), Tail(s))

xor(l, r, w, tieside) ==
    LET st == xor_sweep([prev |-> <<>>, w |-> w], BivariateOrderedIterator(l, r, tieside))
    IN  IF st.prev # <<>> THEN visit_interval(st.w, st.prev[1]) ELSE st.w

and_append(st, curr_interval) ==
    LET w == st.w IN
    IF st.prev = <<>> THEN [prev |-> <<curr_interval>>, w |-> w]
    ELSE LET unwrapped_interval == st.prev[1]
             prev_start == unwrapped_interval.value
             prev_end == get_end(unwrapped_interval)
             curr_start == curr_interval.value
             curr_end == get_end(curr_interval)
             o1 == EndOvf(unwrapped_interval) \/ prev_end = MaxKey
             o2 == o1 \/ EndOvf(curr_interval)
             m == minmax(prev_end, curr_end)
             lo == (m[1] + 1) % Modulus
             osplit == o2 \/ m[1] = MaxKey \/ m[2] < lo
         IN  IF unwrapped_interval = curr_interval
             THEN [prev |-> <<>>, w |-> visit_interval(w, curr_interval)]
             ELSE IF (prev_end + 1) % Modulus < curr_start
             THEN [prev |-> <<curr_interval>>, w |-> Flag(w, o1)]
             ELSE IF prev_start = curr_start
             THEN [prev |-> <<FromPair(lo, m[2])>>,
                   w |-> visit_interval(Flag(w, osplit \/ m[1] < prev_start),
                                        FromPair(prev_start, m[1]))]
             ELSE IF curr_start < prev_start
             THEN [prev |-> <<FromPair(lo, m[2])>>,
                   w |-> visit_interval(Flag(w, osplit \/ m[1] < curr_start),
                                        FromPair(curr_start, m[1]))]
             ELSE IF prev_end < curr_start
             THEN [prev |-> <<curr_interval>>, w |-> Flag(w, o2)]
             ELSE IF prev_end <= curr_end
             THEN LET ns == (prev_end + 1) % Modulus
                  IN  [prev |-> <<FromPair(ns, curr_end)>>,
                       w |-> visit_interval(Flag(w, o2 \/ prev_end = MaxKey \/ curr_end < ns),
                                            FromPair(curr_start, prev_end))]
             ELSE LET ns == (curr_end + 1) % Modulus
                  IN  [prev |-> <<FromPair(ns, prev_end)>>,
                       w |-> visit_interval(Flag(w, o2 \/ curr_end = MaxKey \/ prev_end < ns
                                                       \/ curr_end < curr_start),
                                            FromPair(curr_start, curr_end))]

RECURSIVE and_sweep(_, _)
and_sweep(st, s) ==
    IF s = <<>> THEN st ELSE and_sweep(and_append(st, s[1]), Tail(s))

\* and whose is_full shortcuts hand over the full operand, as or does
and_visits_full_operand(l, r, w, tieside) ==
    IF is_full(l) THEN visit_run_store(w, l)
    ELSE IF is_full(r) THEN visit_run_store(w, r)
    ELSE and_sweep([prev |-> <<>>, w |-> w], BivariateOrderedIterator(l, r, tieside)).w

and(l, r, w, tieside) ==
    IF is_full(l) THEN visit_run_store(w, r)
    ELSE IF is_full(r) THEN visit_run_store(w, l)
    ELSE and_sweep([prev |-> <<>>, w |-> w], BivariateOrderedIterator(l, r, tieside)).w

----------------------------------------------------------------------------
(* What a store encodes, and the store invariants *)

KeysOfInterval(i) == {k \in U16 : i.value <= k /\ k <= i.value + i.length}
KeysOf(v) == UNION {KeysOfInterval(v[i]) : i \in 1..Len(v)}

\* Invariant A and B: ascending, and next.start >= prev.end + 2
WellFormed(v) ==
    /\ \A i \in 1..Len(v) : v[i].value + v[i].length <= MaxKey
    /\ \A i \in 1..(Len(v) - 1) : v[i + 1].value >= v[i].value + v[i].length + 2

SortedDisjoint(v) ==
    /\ \A i \in 1..Len(v) : v[i].value + v[i].length <= MaxKey
    /\ \A i \in 1..(Len(v) - 1) : v[i + 1].value > v[i].value + v[i].length

----------------------------------------------------------------------------
(* Insertion machine: RunStore::new() followed by insert calls *)

NoOut == [vec |-> <<>>, ovf |-> FALSE, panic |-> FALSE, visits |-> 0]

Init ==
    /\ build \in Builds
    /\ vec = RunStoreNew
    /\ pre = RunStoreNew
    /\ key = NoKey
    /\ ret = FALSE
    /\ iovf = FALSE
    /\ lhs = <<>> /\ rhs = <<>> /\ tie = "left" /\ opname = "none"
    /\ out = NoOut /\ rev = NoOut
    /\ acc = RunStoreNew
    /\ seq = <<>> /\ res = [ok |-> TRUE, index |-> 0, vec |-> <<>>]

Insert(k) ==
    LET r == insert(vec, k)
    IN  /\ vec' = r.vec
        /\ pre' = vec
        /\ key' = k
        /\ ret' = r.ret
        /\ iovf' = r.ovf
        /\ UNCHANGED <<build, lhs, rhs, tie, opname, out, rev, acc, seq, res>>

Next == \E k \in U16 : Insert(k)

Spec == Init /\ [][Next]_vars

----------------------------------------------------------------------------
(* Binary operations on two well-formed stores, each run into a fresh      *)
(* RunWriter, in both operand orders (run_commutative_binary_op_test)      *)

Starts(S) == {k \in S : (k - 1) \notin S}
RunEnd(S, a) == CHOOSE e \in S : e >= a /\ (a..e) \subseteq S /\ (e + 1) \notin S
NthStart(S, n) == CHOOSE a \in Starts(S) : Cardinality({b \in Starts(S) : b < a}) = n - 1

\* the maximal-run decomposition of a set of keys
MaximalRuns(S) ==
    [n \in 1..Cardinality(Starts(S)) |-> FromPair(NthStart(S, n), RunEnd(S, NthStart(S, n)))]

WellFormedStores == {MaximalRuns(S) : S \in SUBSET U16}

\* what the caller observes: a panic (failed assertion, or overflow in a
\* debug build), or the store taken out of the writer
Outcome(b, w) ==
    LET p == w.asrt \/ (b = "debug" /\ w.ovf)
    IN  [vec |-> IF p THEN <<>> ELSE into_inner(w), ovf |-> w.ovf, panic |-> p,
         visits |-> w.visits]

InitOps ==
    /\ build \in Builds
    /\ tie \in {"left", "right"}
    /\ lhs \in WellFormedStores
    /\ rhs \in WellFormedStores
    /\ opname = "none"
    /\ out = NoOut /\ rev = NoOut
    /\ acc = RunStoreNew
    /\ vec = RunStoreNew /\ pre = RunStoreNew /\ key = NoKey /\ ret = FALSE /\ iovf = FALSE
    /\ seq = <<>> /\ res = [ok |-> TRUE, index |-> 0, vec |-> <<>>]

Or ==
    /\ opname = "none"
    /\ opname' = "or"
    /\ out' = Outcome(build, or(lhs, rhs, RunWriterNew, tie))
    /\ rev' = Outcome(build, or(rhs, lhs, RunWriterNew, tie))
    /\ UNCHANGED <<build, vec, pre, key, ret, iovf, lhs, rhs, tie, acc, seq, res>>

Xor ==
    /\ opname = "none"
    /\ opname' = "xor"
    /\ out' = Outcome(build, xor(lhs, rhs, RunWriterNew, tie))
    /\ rev' = Outcome(build, xor(rhs, lhs, RunWriterNew, tie))
    /\ UNCHANGED <<build, vec, pre, key, ret, iovf, lhs, rhs, tie, acc, seq, res>>

And ==
    /\ opname = "none"
    /\ opname' = "and"
    /\ out' = Outcome(build, and(lhs, rhs, RunWriterNew, tie))
    /\ rev' = Outcome(build, and(rhs, lhs, RunWriterNew, tie))
    /\ UNCHANGED <<build, vec, pre, key, ret, iovf, lhs, rhs, tie, acc, seq, res>>

NextOps == Or \/ Xor \/ And

SpecOps == InitOps /\ [][NextOps]_vars

----------------------------------------------------------------------------
(* Validated construction from an explicit interval sequence *)

Intervals == {FromPair(a, b) : a \in U16, b \in U16} \cap
             {i \in [value : U16, length : U16] : i.value + i.length <= MaxKey}

IntervalSeqs == UNION {[1..n -> Intervals] : n \in 0..MaxSeqLen}

InitTryFrom ==
    /\ build \in Builds
    /\ seq \in IntervalSeqs
    /\ res = [ok |-> TRUE, index |-> 0, vec |-> <<>>]
    /\ opname = "none"
    /\ vec = RunStoreNew /\ pre = RunStoreNew /\ key = NoKey /\ ret = FALSE /\ iovf = FALSE
    /\ lhs = <<>> /\ rhs = <<>> /\ tie = "left" /\ out = NoOut /\ rev = NoOut
    /\ acc = RunStoreNew

TryFrom ==
    /\ opname = "none"
    /\ opname' = "try_from"
    /\ res' = try_from(seq)
    /\ UNCHANGED <<build, vec, pre, key, ret, iovf, lhs, rhs, tie, out, rev, acc, seq>>

NextTryFrom == TryFrom

SpecTryFrom == InitTryFrom /\ [][NextTryFrom]_vars

----------------------------------------------------------------------------
(* or / and of the full store with a well-formed store X, run into a        *)
(* RunWriter that may already hold a partial accumulation                   *)

FullStore == <<Interval(0, MaxKey)>>

\* what the writer may hold before the operation: nothing, or one run
Accumulations == {RunStoreNew, <<FromKey(0)>>, <<FromKey(MaxKey)>>}

RunWriterWith(a) == [RunWriterNew EXCEPT !.vec = a]

InitFull ==
    /\ build \in Builds
    /\ tie \in {"left", "right"}
    /\ lhs = FullStore
    /\ rhs \in WellFormedStores
    /\ acc \in Accumulations
    /\ opname = "none"
    /\ out = NoOut /\ rev = NoOut
    /\ vec = RunStoreNew /\ pre = RunStoreNew /\ key = NoKey /\ ret = FALSE /\ iovf = FALSE
    /\ seq = <<>> /\ res = [ok |-> TRUE, index |-> 0, vec |-> <<>>]

OrInto ==
    /\ opname = "none"
    /\ opname' = "or"
    /\ out' = Outcome(build, or(lhs, rhs, RunWriterWith(acc), tie))
    /\ rev' = Outcome(build, or(rhs, lhs, RunWriterWith(acc), tie))
    /\ UNCHANGED <<build, vec, pre, key, ret, iovf, lhs, rhs, tie, acc, seq, res>>

AndInto ==
    /\ opname = "none"
    /\ opname' = "and"
    /\ out' = Outcome(build, and(lhs, rhs, RunWriterWith(acc), tie))
    /\ rev' = Outcome(build, and(rhs, lhs, RunWriterWith(acc), tie))
    /\ UNCHANGED <<build, vec, pre, key, ret, iovf, lhs, rhs, tie, acc, seq, res>>

NextFull == OrInto \/ AndInto

SpecFull == InitFull /\ [][NextFull]_vars

----------------------------------------------------------------------------
\* the binary-search contracts used above need a store sorted by start
\* with disjoint runs; insert never overflows
InsertStoreSorted == SortedDisjoint(vec) /\ ~iovf

----------------------------------------------------------------------------
(* Properties of insertion (specification Spec) *)

\* C1: after any sequence of insert calls on the empty store, the run list
\* is strictly ascending and consecutive runs satisfy
\* next.start >= prev.end + 2 (Invariant A and B).
C1_InsertKeepsInvariants == WellFormed(vec)

\* C2: on a well-formed store, insert(k) adds exactly the key k: the keys
\* encoded afterwards are the keys encoded before, united with {k}.
C2_InsertAddsExactlyKey ==
    (key # NoKey /\ WellFormed(pre)) => KeysOf(vec) = KeysOf(pre) \cup {key}

\* C9: insert(k) of an absent key k, with k+1 the start of a run R (at any
\* position, the first included) and k-1 absent, grows R downward to
\* [k, R.end] and leaves the number of runs unchanged.
C9_InsertPrependsToNextRun ==
    \A j \in 1..Len(pre) :
        (/\ key # NoKey
         /\ key \notin KeysOf(pre)
         /\ (key - 1) \notin KeysOf(pre)
         /\ pre[j].value = key + 1)
        => vec = [pre EXCEPT ![j] = Interval(key, pre[j].length + 1)]

\* C10: right after insert(k) on a store built by insertions, find_run(k)
\* is Ok, and a second insert(k) returns false and leaves the run list
\* unchanged.
C10_InsertedKeyFoundAndIdempotent ==
    key # NoKey =>
        /\ find_run(vec, key).ok
        /\ insert(vec, key).ret = FALSE
        /\ insert(vec, key).vec = vec

\* a key that was absent has just been inserted between other runs
C10_Witness ==
    /\ key # NoKey
    /\ ret = TRUE
    /\ Len(vec) >= 2
    /\ vec # pre
    /\ key \notin KeysOf(pre)
    /\ \E i \in 1..Len(vec) : get_end(vec[i]) = key /\ vec[i].length > 0

----------------------------------------------------------------------------
(* Properties of the binary operations (specification SpecOps) *)

\* C3: and(A, B) into a fresh RunWriter yields a store encoding exactly
\* keys(A) \cap keys(B), for all well-formed A and B.
C3_AndIsIntersection ==
    opname = "and" =>
        /\ ~out.panic
        /\ KeysOf(out.vec) = KeysOf(lhs) \cap KeysOf(rhs)

\* C4: xor(A, B) into a fresh RunWriter yields a store encoding exactly the
\* symmetric difference of keys(A) and keys(B), with ascending runs that
\* neither overlap nor touch.
C4_XorIsSymmetricDifference ==
    opname = "xor" =>
        /\ ~out.panic
        /\ KeysOf(out.vec) = (KeysOf(lhs) \ KeysOf(rhs)) \cup (KeysOf(rhs) \ KeysOf(lhs))
        /\ WellFormed(out.vec)

\* C5: or(A, B) into a fresh RunWriter yields the maximal-run decomposition
\* of keys(A) \cup keys(B).
C5_OrIsMaximalUnion ==
    opname = "or" =>
        /\ ~out.panic
        /\ out.vec = MaximalRuns(KeysOf(lhs) \cup KeysOf(rhs))

\* C7: or, xor and and on well-formed stores complete without overflow or
\* underflow in bound arithmetic and without a failed ordering assertion.
C7_OpsTotalWithoutOverflow ==
    opname # "none" => (~out.ovf /\ ~out.panic /\ ~rev.ovf /\ ~rev.panic)

\* C8: or, xor and and are commutative: op(A, B) and op(B, A), each into a
\* fresh RunWriter, end the same way with identical run lists.
C8_OpsCommutative ==
    opname # "none" => (out.panic = rev.panic /\ out.vec = rev.vec)

----------------------------------------------------------------------------
(* Properties of validated construction (specification SpecTryFrom) *)

\* position (0-based) of the intervals that overlap, touch or do not start
\* above their immediate predecessor
Violations(s) == {i \in 1..(Len(s) - 1) : s[i + 1].value < s[i].value + s[i].length + 2}

\* C6: try_from fails with MonotonicityViolation, at the index of the first
\* interval violating the order with respect to its immediate predecessor,
\* for every sequence with such a pair at any position; it succeeds for
\* every other sequence.
C6_TryFromRejectsEveryViolation ==
    opname = "try_from" =>
        IF Violations(seq) = {}
        THEN res.ok /\ res.vec = seq
        ELSE (~res.ok) /\ res.index = (CHOOSE i \in Violations(seq) :
                                          \A j \in Violations(seq) : i <= j)

----------------------------------------------------------------------------
(* Algebraic identities of the binary operations *)

\* C11: xor(A, A) into a fresh RunWriter yields the empty store for every
\* well-formed A (several runs, a run ending at the top of the key range):
\* every run cancels with its counterpart and the visitor receives no
\* interval, in either operand order.
C11_XorSelfIsEmpty ==
    (opname = "xor" /\ lhs = rhs) =>
        /\ out = [vec |-> RunStoreNew, ovf |-> FALSE, panic |-> FALSE, visits |-> 0]
        /\ rev = out

\* xor(A, A) has run on a store of several runs whose last run ends at the
\* top of the key range
C11_Witness ==
    /\ opname = "xor"
    /\ lhs = rhs
    /\ Len(lhs) >= 2
    /\ get_end(lhs[Len(lhs)]) = MaxKey
    /\ out.vec = RunStoreNew

\* C12: and(full, X) and and(X, full) hand X over through visit_run_store:
\* the writer ends with a run list identical to X's, whatever it held
\* before, and no interval is visited; X is the store the operation
\* started with.
C12_AndFullIsOther ==
    (opname = "and" /\ lhs = FullStore) =>
        /\ out = [vec |-> rhs, ovf |-> FALSE, panic |-> FALSE, visits |-> 0]
        /\ rev = out

\* and with the full store has replaced a partial accumulation by an X of
\* several runs
C12_Witness ==
    /\ opname = "and"
    /\ lhs = FullStore
    /\ acc # RunStoreNew
    /\ Len(rhs) >= 2
    /\ out.vec = rhs
    /\ rev.vec = rhs

\* C13: or(full, X) and or(X, full) yield the full store, exactly one run
\* covering the whole key space, without visiting any interval of X.
C13_OrFullIsFull ==
    (opname = "or" /\ lhs = FullStore) =>
        /\ out = [vec |-> FullStore, ovf |-> FALSE, panic |-> FALSE, visits |-> 0]
        /\ rev = out

\* or with the full store has run on a non-empty X that is not full
C13_Witness ==
    /\ opname = "or"
    /\ lhs = FullStore
    /\ rhs # RunStoreNew
    /\ rhs # FullStore
    /\ out.vec = FullStore
    /\ rev.vec = FullStore

====
